---- MODULE Spec2Model ----
(***************************************************************************)
(* Model of src/main.py: the sitemap crawler's bounded-concurrency crawl   *)
(* orchestrator (_crawl_parallel), its caller (main) and the result        *)
(* persister (_save_markdown_to_result_dir).                               *)
(*                                                                         *)
(* Positions in the URL list are 1-based here (TLA+ sequences); the loop   *)
(* variables i and k keep the 0-based values of the Python code, so the    *)
(* URL at Python index i + j is urls[i + j + 1] and its session id is      *)
(* i + j, as in f"parallel_session_{i + j}".                               *)
(***************************************************************************)
EXTENDS Integers, Sequences, FiniteSets, TLC

(***************************************************************************)
(* Bounds of the model.                                                    *)
(***************************************************************************)
MaxLen == 3
MaxWidth == 2
MaxEntries == 2
MaxUrlLen == 4

(***************************************************************************)
(* Program constants.                                                      *)
(***************************************************************************)
\* main.py:188  await _crawl_parallel(urls, args.html_output, max_concurrent=10)
MainWidth == 10

(***************************************************************************)
(* URLs are sequences of tokens.  "https://" is one token: no             *)
(* concatenation of the other tokens contains that substring, so           *)
(* str.replace("https://", "") removes exactly the "https://" tokens.      *)
(***************************************************************************)
U1 == <<"https://", "a", ".", "b">>
U2 == <<"https://", "a", "/", "c">>
URLS == {U1, U2}

Min(a, b) == IF a < b THEN a ELSE b

RECURSIVE SeqsUpTo(_, _)
SeqsUpTo(S, n) ==
    IF n = 0 THEN {<<>>}
    ELSE LET shorter == SeqsUpTo(S, n - 1)
         IN  shorter \cup {Append(s, x) : s \in {t \in shorter : Len(t) = n - 1}, x \in S}

UrlLists == SeqsUpTo(URLS, MaxLen)

\* absolute https URLs of up to MaxUrlLen tokens after the scheme
UrlTokens == {"https://", "a", "/", "."}
HttpsUrls == {<<"https://">> \o rest : rest \in SeqsUpTo(UrlTokens, MaxUrlLen)}

(***************************************************************************)
(* What one awaited crawler.arun can give asyncio.gather                   *)
(* (return_exceptions=True): an Exception instance, or a CrawlResult with  *)
(* its success flag and its optional html and markdown (TRUE: present and  *)
(* non-empty, FALSE: None or empty).  A CrawlResult carries the URL it was *)
(* fetched for (result.url); pos tells which arun call gave the outcome.   *)
(* Both are filled in when the call resolves.  The code reads neither html *)
(* nor markdown of a result whose success flag is false (lines 65-66); the *)
(* one unsuccessful result of the model carries both, so that what keeps   *)
(* it from being saved is the flag and not a lack of content.              *)
(***************************************************************************)
NoResult == [kind |-> "pending", success |-> FALSE, html |-> FALSE, markdown |-> FALSE,
             url |-> <<>>, pos |-> 0]
Fault == [kind |-> "exception", success |-> FALSE, html |-> FALSE, markdown |-> FALSE,
          url |-> <<>>, pos |-> 0]
CrawlResults ==
    {[kind |-> "result", success |-> TRUE, html |-> h, markdown |-> m,
      url |-> <<>>, pos |-> 0] : h, m \in BOOLEAN}
    \cup {[kind |-> "result", success |-> FALSE, html |-> TRUE, markdown |-> TRUE,
           url |-> <<>>, pos |-> 0]}
Outcomes == {Fault} \cup CrawlResults

\* the outcome o as the arun call for position p of the list u gives it
Produced(o, u, p) ==
    [o EXCEPT !.pos = p, !.url = IF o.kind = "result" THEN u[p] ELSE <<>>]

(***************************************************************************)
(* What one requests.get of a sitemap URL, with raise_for_status and       *)
(* ElementTree.fromstring, can give: a transport error, a non-success      *)
(* status, malformed XML, or a document.  Of a document the code reads the *)
(* root tag and the loc elements of the sitemap namespace, at any depth,   *)
(* in document order; each loc is kept here with the element that holds    *)
(* it (url or sitemap) and its text (<<>>: empty or missing; the element   *)
(* holding an empty loc is not told apart).                                *)
(***************************************************************************)
RootUrl == <<"https://", "a", "/", "sitemap", ".", "xml">>
Locs == [parent : {"url", "sitemap"}, text : URLS] \cup {[parent |-> "url", text |-> <<>>]}
NoResponse == [kind |-> "none", root |-> "", locs |-> <<>>]
Failures == {[kind |-> e, root |-> "", locs |-> <<>>] :
                e \in {"transport_error", "http_error", "parse_error"}}
Documents == [kind : {"xml"}, root : {"urlset", "sitemapindex"}, locs : SeqsUpTo(Locs, MaxEntries)]
Responses == Failures \cup Documents

VARIABLES
    sitemap_url,    \* args.sitemap_url
    child_sitemaps, \* the list _get_child_sitemaps returned
    child,          \* number of child sitemaps the loop of line 179 has done
    response,       \* the response of the latest requests.get
    caller,         \* "main": run from main(); "direct": _crawl_parallel called directly
    urls,           \* the page-URL list
    max_concurrent, \* the batch width
    html_output,    \* --html-output
    pc,             \* where the run is
    i,              \* for i in range(0, len(urls), max_concurrent)
    k,              \* index of the (url, result) pair the evaluation loop is at
    task,           \* per position: "new", "pending" (dispatched, unresolved), "done"
    results,        \* what gather collects for the current batch, in batch order
    success_count,
    fail_count,
    error,          \* the exception the run ended with, or "none"
    startCalls,     \* number of calls of crawler.start
    closeCalls,     \* number of calls of crawler.close
    fetches,        \* the crawler.arun calls, in order
    batches,        \* the batches dispatched, in order
    events,         \* tally and write events, in order
    files,          \* the output directory: file name -> content
    summary         \* the counts logged at lines 68-70, or <<>>

vars == <<sitemap_url, child_sitemaps, child, response, caller, urls,
          max_concurrent, html_output, pc, i, k, task, results,
          success_count, fail_count, error, startCalls, closeCalls, fetches,
          batches, events, files, summary>>

resolved == <<sitemap_url, child_sitemaps, child, response>>

inputs == <<resolved, caller, urls, max_concurrent, html_output>>

Positions == 1..Len(urls)

InFlight == {p \in Positions : task[p] = "pending"}

(***************************************************************************)
(* Pure functions of the code.                                             *)
(***************************************************************************)
\* variants: the slice one longer, urls[i : i + max_concurrent + 1], and one
\* shorter, urls[i : i + max_concurrent - 1]
BatchWide(u, start, w) == SubSeq(u, start + 1, Min(start + w + 1, Len(u)))
BatchShort(u, start, w) == SubSeq(u, start + 1, Min(start + w - 1, Len(u)))

\* urls[i : i + max_concurrent]
Batch(u, start, w) == SubSeq(u, start + 1, Min(start + w, Len(u)))

\* result.url.replace("https://", "").replace("/", "_").replace(".", "_")
StripScheme(url) == SelectSeq(url, LAMBDA t : t # "https://")
Underscore(s) == [n \in 1..Len(s) |-> IF s[n] \in {"/", "."} THEN "_" ELSE s[n]]
Filename(url) == Underscore(StripScheme(url))

\* f"{filename}.html" / f"{filename}.md"
OutputFile(url, html) == Append(Filename(url), IF html THEN ".html" ELSE ".md")

\* [loc.text for loc in root.findall(".//ns:loc", namespace) if loc.text]
LocTexts(doc) ==
    LET kept == SelectSeq(doc.locs, LAMBDA l : l.text # <<>>)
    IN  [n \in 1..Len(kept) |-> kept[n].text]

\* _get_urls_to_crawl: the loc texts of the document, [] on any exception
UrlsToCrawl(resp) ==
    IF resp.kind # "xml" THEN <<>> ELSE LocTexts(resp)

\* variant: the test of the root tag missing
ChildSitemapsNoRootTest(resp, base) ==
    IF resp.kind # "xml" THEN <<>> ELSE LocTexts(resp)

\* _get_child_sitemaps: [] on any exception, the sitemap itself unless the
\* root tag ends with "sitemapindex", else the loc texts of the document
ChildSitemaps(resp, base) ==
    IF resp.kind # "xml" THEN <<>>
    ELSE IF resp.root # "sitemapindex" THEN <<base>>
    ELSE LocTexts(resp)

\* variant: urls = ... instead of urls.extend(...)
ExtendReplaces(list, more) == more

\* urls.extend(...)
Extend(list, more) == list \o more

\* variant: isinstance(result, CrawlResult)
AssertOkResultOnly(r) == r.kind = "result"

\* isinstance(result, (Exception, CrawlResult))
AssertOk(r) == r.kind \in {"exception", "result"}

\* variant: the final else branch (line 65-66) missing
TallyOfNoElse(r) ==
    IF r.kind = "exception" THEN "fail"
    ELSE IF r.success THEN "success"
    ELSE "none"

\* the branch of lines 59-66 a result takes
TallyOf(r) ==
    IF r.kind = "exception" THEN "fail"
    ELSE IF r.success THEN "success"
    ELSE "fail"

\* logger.critical("Error crawling %s: %s", url, result) is called in the
\* isinstance(result, Exception) branch alone (line 60)
Logs(r) == r.kind = "exception"

\* variant: the two content fields swapped
SelectedSwapped(r, html) == IF html THEN r.markdown ELSE r.html

\* the content _save_markdown_to_result_dir selects, and whether it is there
Selected(r, html) == IF html THEN r.html ELSE r.markdown

\* variant: return as soon as one awaitable has resolved
GatherFirstDone(b) == \E p \in b : task[p] = "done"

\* variant: gather does not wait for the awaitables
GatherNoWait(b) == TRUE

\* variant: gather waits for a task of every URL of the list, dispatched or not
GatherAllUrlsDone(b) == \A p \in Positions : task[p] = "done"

\* asyncio.gather returns when every awaitable of the batch has resolved
GatherDone(b) == \A p \in b : task[p] = "done"

\* variant: results in the order the tasks complete
SlotOfCompletion(p, start) ==
    1 + Cardinality({n \in DOMAIN results : results[n].kind # "pending"})

\* gather returns the results in the order of the awaitables passed to it
SlotOf(p, start) == p - start

\* variants: the index within the batch alone; a step that skips a URL
SessionIdInBatch(start, j) == j
NextStartSkips(start, w) == start + w + 1

\* f"parallel_session_{i + j}"
SessionId(start, j) == start + j

\* range(0, len(urls), max_concurrent): the next value of i
NextStart(start, w) == start + w

BatchPositions == {p \in Positions : i < p /\ p <= i + Len(results)}

\* try: ... finally: an exception raised inside the try block runs the finally
\* block (lines 72-74) before it propagates
OnRaiseNoFinally == "done"
OnRaise == "close"

Put(f, name, content) ==
    [n \in DOMAIN f \cup {name} |-> IF n = name THEN content ELSE f[n]]

(***************************************************************************)
(* Initial states: main() run on a URL list of any length (empty too), or  *)
(* _crawl_parallel called directly with a list and a width.                *)
(***************************************************************************)
Init ==
    /\ sitemap_url = RootUrl
    /\ child_sitemaps = <<>>
    /\ child = 0
    /\ response = NoResponse
    /\ caller \in {"main", "direct"}
    /\ urls \in UrlLists
    /\ max_concurrent \in IF caller = "main" THEN {MainWidth} ELSE 1..MaxWidth
    /\ html_output \in BOOLEAN
    /\ pc = IF caller = "main" THEN "main" ELSE "start"
    /\ i = 0
    /\ k = 0
    /\ task = [p \in Positions |-> "new"]
    /\ results = <<>>
    /\ success_count = 0
    /\ fail_count = 0
    /\ error = "none"
    /\ startCalls = 0
    /\ closeCalls = 0
    /\ fetches = <<>>
    /\ batches = <<>>
    /\ events = <<>>
    /\ files = <<>>
    /\ summary = <<>>

(***************************************************************************)
(* main from its first line: the sitemap URL is given, nothing is fetched  *)
(* yet.                                                                    *)
(***************************************************************************)
ResolveInit ==
    /\ sitemap_url = RootUrl
    /\ child_sitemaps = <<>>
    /\ child = 0
    /\ response = NoResponse
    /\ caller = "main"
    /\ urls = <<>>
    /\ max_concurrent = MainWidth
    /\ html_output \in BOOLEAN
    /\ pc = "sitemaps"
    /\ i = 0
    /\ k = 0
    /\ task = <<>>
    /\ results = <<>>
    /\ success_count = 0
    /\ fail_count = 0
    /\ error = "none"
    /\ startCalls = 0
    /\ closeCalls = 0
    /\ fetches = <<>>
    /\ batches = <<>>
    /\ events = <<>>
    /\ files = <<>>
    /\ summary = <<>>

crawl == <<i, k, results, success_count, fail_count, error, startCalls, closeCalls,
           fetches, batches, events, files, summary>>

(***************************************************************************)
(* main, line 176: child_sitemaps = _get_child_sitemaps(args.sitemap_url), *)
(* lines 127-152, and line 178: urls = [].                                 *)
(***************************************************************************)
GetChildSitemaps ==
    /\ pc = "sitemaps"
    /\ \E resp \in Responses :
          /\ response' = resp
          /\ child_sitemaps' = ChildSitemaps(resp, sitemap_url)
    /\ child' = 0
    /\ urls' = <<>>
    /\ pc' = "urls"
    /\ UNCHANGED <<sitemap_url, caller, max_concurrent, html_output, task, crawl>>

(***************************************************************************)
(* main, lines 179-180: urls.extend(_get_urls_to_crawl(child_sitemap)),    *)
(* lines 101-124, for the next child sitemap.  The responses are limited   *)
(* to those that keep the list within MaxLen URLs.                         *)
(***************************************************************************)
GetUrlsToCrawl ==
    /\ pc = "urls"
    /\ child < Len(child_sitemaps)
    /\ \E resp \in Responses :
          /\ response' = resp
          /\ urls' = Extend(urls, UrlsToCrawl(resp))
          /\ Len(urls') <= MaxLen
    /\ child' = child + 1
    /\ UNCHANGED <<sitemap_url, child_sitemaps, caller, max_concurrent, html_output,
                   pc, task, crawl>>

(***************************************************************************)
(* main: the loop of line 179 is exhausted; line 182 is next.              *)
(***************************************************************************)
UrlsCollected ==
    /\ pc = "urls"
    /\ child = Len(child_sitemaps)
    /\ pc' = "main"
    /\ task' = [p \in Positions |-> "new"]
    /\ UNCHANGED <<inputs, crawl>>

(***************************************************************************)
(* main, lines 182-190: _crawl_parallel is called only for a non-empty     *)
(* list; otherwise a warning is logged and main returns.                   *)
(***************************************************************************)
MainNoGuard ==
    /\ pc = "main"
    /\ pc' = "start"
    /\ UNCHANGED <<inputs, i, k, task, results, success_count, fail_count, error,
                   startCalls, closeCalls, fetches, batches, events, files, summary>>

Main ==
    /\ pc = "main"
    /\ pc' = IF urls # <<>> THEN "start" ELSE "done"
    /\ UNCHANGED <<inputs, i, k, task, results, success_count, fail_count, error,
                   startCalls, closeCalls, fetches, batches, events, files, summary>>

(***************************************************************************)
(* _crawl_parallel, lines 36-42: the crawler is created and started        *)
(* before the try block is entered.  crawler.start may raise; the          *)
(* exception then leaves _crawl_parallel without reaching the finally.     *)
(***************************************************************************)
Start ==
    /\ pc = "start"
    /\ startCalls' = startCalls + 1
    /\ \E ok \in BOOLEAN :
        IF ok
        THEN /\ pc' = "batch"
             /\ error' = error
        ELSE /\ pc' = "done"
             /\ error' = "start"
    /\ i' = 0
    /\ success_count' = 0
    /\ fail_count' = 0
    /\ UNCHANGED <<inputs, k, task, results, closeCalls, fetches, batches, events,
                   files, summary>>

(***************************************************************************)
(* Lines 43-54, up to the await: the next batch is sliced, one arun        *)
(* coroutine is created per URL with session id i + j, and gather          *)
(* schedules them all.                                                     *)
(***************************************************************************)
Dispatch ==
    /\ pc = "batch"
    /\ i < Len(urls)
    /\ LET batch == Batch(urls, i, max_concurrent)
       IN  /\ batches' = Append(batches, batch)
           /\ fetches' = fetches \o [j \in 1..Len(batch) |->
                                        [url |-> batch[j], session_id |-> SessionId(i, j - 1)]]
           /\ task' = [p \in Positions |->
                          IF i < p /\ p <= i + Len(batch) THEN "pending" ELSE task[p]]
           /\ results' = [j \in 1..Len(batch) |-> NoResult]
    /\ pc' = "gather"
    /\ UNCHANGED <<inputs, i, k, success_count, fail_count, error, startCalls,
                   closeCalls, events, files, summary>>

(***************************************************************************)
(* One dispatched arun resolves: it returns a CrawlResult or raises, and   *)
(* gather stores the value or the exception at the task's place.           *)
(***************************************************************************)
Resolve(p) ==
    /\ task[p] = "pending"
    /\ task' = [task EXCEPT ![p] = "done"]
    /\ \E o \in Outcomes :
          results' = [results EXCEPT ![SlotOf(p, i)] = Produced(o, urls, p)]
    /\ UNCHANGED <<inputs, pc, i, k, success_count, fail_count, error, startCalls,
                   closeCalls, fetches, batches, events, files, summary>>

(***************************************************************************)
(* Line 54: the await of asyncio.gather(..., return_exceptions=True)       *)
(* returns.                                                                *)
(***************************************************************************)
GatherReturn ==
    /\ pc = "gather"
    /\ GatherDone(BatchPositions)
    /\ pc' = "eval"
    /\ k' = 0
    /\ UNCHANGED <<inputs, i, task, results, success_count, fail_count, error,
                   startCalls, closeCalls, fetches, batches, events, files, summary>>

(***************************************************************************)
(* Lines 57-66 with lines 77-98: one (url, result) pair is evaluated.  A   *)
(* fault is logged with the URL at its place in the batch and counted; a   *)
(* successful result is counted and then saved under the name made from    *)
(* result.url; an unsuccessful one is counted.  open()/write() may raise   *)
(* OSError, which nothing catches: it leaves _crawl_parallel through the   *)
(* finally block.                                                          *)
(***************************************************************************)
Evaluate ==
    /\ pc = "eval"
    /\ k < Len(results)
    /\ LET pos == i + k + 1
           r == results[k + 1]
           name == OutputFile(r.url, html_output)
           content == <<IF html_output THEN "html" ELSE "markdown", r.pos>>
           tally == [type |-> "tally", pos |-> pos, what |-> TallyOf(r)]
           logged == IF Logs(r) THEN <<[type |-> "log", pos |-> pos, what |-> urls[pos]]>>
                     ELSE <<>>
           write == [type |-> "write", pos |-> pos, what |-> name]
           failed == [type |-> "write_failed", pos |-> pos, what |-> name]
       IN  IF ~AssertOk(r)
           THEN /\ error' = "assert"
                /\ pc' = OnRaise
                /\ UNCHANGED <<k, success_count, fail_count, events, files>>
           ELSE /\ success_count' = success_count + (IF TallyOf(r) = "success" THEN 1 ELSE 0)
                /\ fail_count' = fail_count + (IF TallyOf(r) = "fail" THEN 1 ELSE 0)
                /\ IF TallyOf(r) = "success" /\ Selected(r, html_output)
                   THEN \E ok \in BOOLEAN :
                           IF ok
                           THEN /\ files' = Put(files, name, content)
                                /\ events' = events \o <<tally, write>>
                                /\ k' = k + 1
                                /\ UNCHANGED <<pc, error>>
                           ELSE /\ error' = "persist"
                                /\ pc' = OnRaise
                                /\ events' = events \o <<tally, failed>>
                                /\ UNCHANGED <<k, files>>
                   ELSE /\ events' = (events \o logged) \o <<tally>>
                        /\ k' = k + 1
                        /\ UNCHANGED <<pc, error, files>>
    /\ UNCHANGED <<inputs, i, task, results, startCalls, closeCalls, fetches,
                   batches, summary>>

(***************************************************************************)
(* The evaluation loop is exhausted: back to the range loop of line 43.    *)
(***************************************************************************)
NextBatch ==
    /\ pc = "eval"
    /\ k = Len(results)
    /\ i' = NextStart(i, max_concurrent)
    /\ pc' = "batch"
    /\ UNCHANGED <<inputs, k, task, results, success_count, fail_count, error,
                   startCalls, closeCalls, fetches, batches, events, files, summary>>

(***************************************************************************)
(* Lines 68-70: the range loop is exhausted and the summary is logged.     *)
(***************************************************************************)
Summary ==
    /\ pc = "batch"
    /\ i >= Len(urls)
    /\ summary' = <<success_count, fail_count>>
    /\ pc' = "close"
    /\ UNCHANGED <<inputs, i, k, task, results, success_count, fail_count, error,
                   startCalls, closeCalls, fetches, batches, events, files>>

(***************************************************************************)
(* Lines 72-74: the finally block closes the crawler; a pending exception  *)
(* then continues to propagate.                                            *)
(***************************************************************************)
Close ==
    /\ pc = "close"
    /\ closeCalls' = closeCalls + 1
    /\ pc' = "done"
    /\ UNCHANGED <<inputs, i, k, task, results, success_count, fail_count, error,
                   startCalls, fetches, batches, events, files, summary>>

Next ==
    \/ Main
    \/ Start
    \/ Dispatch
    \/ \E p \in Positions : Resolve(p)
    \/ GatherReturn
    \/ Evaluate
    \/ NextBatch
    \/ Summary
    \/ Close

Spec == Init /\ [][Next]_vars

(***************************************************************************)
(* main up to the call of _crawl_parallel: the resolution of the sitemap   *)
(* into the URL list.                                                      *)
(***************************************************************************)
ResolveNext ==
    \/ GetChildSitemaps
    \/ GetUrlsToCrawl
    \/ UrlsCollected
    \/ Main

ResolveSpec == ResolveInit /\ [][ResolveNext]_vars

(***************************************************************************)
(* The evaluation of one outcome, lines 57-66 and 77-98, for any https     *)
(* URL: _crawl_parallel called with a one-URL list, at the point where     *)
(* gather has returned the outcome of its fetch.                           *)
(***************************************************************************)
PersistInit ==
    /\ sitemap_url = RootUrl
    /\ child_sitemaps = <<>>
    /\ child = 0
    /\ response = NoResponse
    /\ caller = "direct"
    /\ \E u \in HttpsUrls : urls = <<u>>
    /\ max_concurrent = 1
    /\ html_output \in BOOLEAN
    /\ pc = "eval"
    /\ i = 0
    /\ k = 0
    /\ task = <<"done">>
    /\ \E o \in Outcomes : results = <<Produced(o, urls, 1)>>
    /\ success_count = 0
    /\ fail_count = 0
    /\ error = "none"
    /\ startCalls = 1
    /\ closeCalls = 0
    /\ fetches = <<[url |-> urls[1], session_id |-> SessionId(0, 0)]>>
    /\ batches = <<urls>>
    /\ events = <<>>
    /\ files = <<>>
    /\ summary = <<>>

PersistSpec == PersistInit /\ [][Evaluate]_vars

(***************************************************************************)
(* Vocabulary of the properties.                                           *)
(***************************************************************************)
\* _crawl_parallel returned normally
Completed == pc = "done" /\ error = "none" /\ startCalls = 1

\* _crawl_parallel was left by an exception raised inside the try block
Aborted == error \in {"persist", "assert"}

Events(type, p) == {n \in DOMAIN events : events[n].type = type /\ events[n].pos = p}

Tallied(p, what) == \E n \in Events("tally", p) : events[n].what = what

Dispatched == {p \in Positions : task[p] # "new"}

\* 0-based number of the batch a position belongs to
BatchOf(p) == (p - 1) \div max_concurrent

(***************************************************************************)
(* C1: when _crawl_parallel returns normally, success_count + fail_count   *)
(* equals the number of URLs, whatever the outcomes were: every position   *)
(* has exactly one tally event, counted in exactly one of the two          *)
(* counters, and the logged summary carries those counts.                  *)
(***************************************************************************)
C1_CountsAddUp ==
    Completed =>
        /\ success_count + fail_count = Len(urls)
        /\ \A p \in Positions : Cardinality(Events("tally", p)) = 1
        /\ success_count = Cardinality({p \in Positions : Tallied(p, "success")})
        /\ fail_count = Cardinality({p \in Positions : Tallied(p, "fail")})
        /\ summary = <<success_count, fail_count>>

\* a completed run of several batches with a success, a raised fault and an
\* unsuccessful result
C1_Witness ==
    /\ Completed
    /\ Len(urls) = 3
    /\ Len(batches) = 2
    /\ success_count = 1
    /\ fail_count = 2
    /\ \E n \in DOMAIN results : results[n].kind = "exception"

(***************************************************************************)
(* C2: a raised fault is tallied as a failure and never aborts the run.    *)
(* The evaluation loop passes every fault it meets, counting it in         *)
(* fail_count; when the run is aborted inside the batch loop, the result   *)
(* it stopped at is not a fault; gather hands over the batch only when the *)
(* siblings of a faulted task have resolved too; and a run that ends with  *)
(* URLs not dispatched or not tallied was aborted by something else.       *)
(***************************************************************************)
C2_FaultNotFatal ==
    /\ Aborted => k < Len(results) /\ results[k + 1].kind # "exception"
    /\ pc = "eval" =>
          /\ \A n \in 1..Len(results) : results[n].kind # "pending"
          /\ \A n \in 1..k : results[n].kind = "exception" => Tallied(i + n, "fail")
    /\ (pc = "done" /\ startCalls = 1 /\ ~Aborted /\ error # "start") =>
          /\ Len(fetches) = Len(urls)
          /\ \A p \in Positions : Cardinality(Events("tally", p)) = 1

\* the first task of a batch faulted, its sibling was tallied after it, and a
\* later batch was dispatched and tallied
C2_Witness ==
    /\ Completed
    /\ Len(batches) = 2
    /\ Len(batches[1]) = 2
    /\ events[1].type = "log"
    /\ events[2].what = "fail"
    /\ events[3].what = "success"
    /\ fail_count = 1
    /\ success_count = 2

(***************************************************************************)
(* C3: once crawler.start has returned, crawler.close is called exactly    *)
(* once on every exit path (normal return, or an exception raised inside   *)
(* the batch loop): never twice, not zero times when the run has ended,    *)
(* and no fetch is dispatched once it has been called.                     *)
(***************************************************************************)
C3_ReleasedOnce ==
    /\ [](closeCalls <= 1)
    /\ []((pc = "done" /\ startCalls = 1 /\ error # "start") => closeCalls = 1)
    /\ [](closeCalls >= 1 => InFlight = {})
    /\ [][closeCalls >= 1 => fetches' = fetches /\ task' = task]_vars

\* the run left the batch loop by an exception, with URLs not yet dispatched,
\* and the crawler was closed
C3_Witness ==
    /\ pc = "done"
    /\ error = "persist"
    /\ closeCalls = 1
    /\ Len(fetches) < Len(urls)

(***************************************************************************)
(* C4: at no time are more than max_concurrent fetch tasks dispatched and  *)
(* not yet resolved.                                                       *)
(***************************************************************************)
C4_BoundedConcurrency == Cardinality(InFlight) <= max_concurrent

\* a full batch in flight, after an earlier batch
C4_Witness ==
    /\ Cardinality(InFlight) = max_concurrent
    /\ max_concurrent = 1
    /\ Len(batches) = 3

(***************************************************************************)
(* C5: batches are dispatched in list order with a barrier between them.   *)
(* Tasks are in flight only while the orchestrator waits at the gather;    *)
(* when a task of some batch has been dispatched, every task of every      *)
(* earlier batch has resolved; and positions are dispatched in list order. *)
(***************************************************************************)
C5_Barrier ==
    /\ InFlight # {} => pc = "gather"
    /\ \A q \in Dispatched : \A p \in Positions :
          /\ BatchOf(p) < BatchOf(q) => task[p] = "done"
          /\ p < q => p \in Dispatched

\* the second batch is in flight; the first one has resolved
C5_Witness ==
    /\ pc = "gather"
    /\ max_concurrent = 2
    /\ Len(batches) = 2
    /\ task = <<"done", "done", "pending">>

(***************************************************************************)
(* C6: the batches are the contiguous slices [0,w), [w,2w), ... of the URL *)
(* list.  Every batch dispatched is the slice at its place; every batch    *)
(* but the latest has exactly w elements and the latest between 1 and w;   *)
(* when the run completes, the batches concatenated give the URL list, and *)
(* a width of at least the list length gives one batch.  Ten URLs with     *)
(* width 3 are sliced into batches of 3, 3, 3 and 1.                       *)
(***************************************************************************)
RECURSIVE Flatten(_)
Flatten(ss) == IF ss = <<>> THEN <<>> ELSE Head(ss) \o Flatten(Tail(ss))

TenUrls == [n \in 1..10 |-> n]

C6_Partition ==
    LET n == Len(urls)
        w == max_concurrent
        last(b) == IF b * w < n THEN b * w ELSE n
    IN  /\ \A b \in 1..Len(batches) :
              /\ batches[b] = [j \in 1..(last(b) - (b - 1) * w) |-> urls[(b - 1) * w + j]]
              /\ b < Len(batches) => Len(batches[b]) = w
              /\ Len(batches[b]) \in 1..w
        /\ Completed =>
              /\ Flatten(batches) = urls
              /\ (n > 0 /\ w >= n) => Len(batches) = 1
        /\ [b \in 1..4 |-> Batch(TenUrls, 3 * (b - 1), 3)]
              = <<(<<1, 2, 3>>), (<<4, 5, 6>>), (<<7, 8, 9>>), (<<10>>)>>

\* a completed run whose last batch is shorter than the width
C6_Witness ==
    /\ Completed
    /\ max_concurrent = 2
    /\ Len(batches) = 2
    /\ Len(batches[1]) = 2
    /\ Len(batches[2]) = 1

(***************************************************************************)
(* C7, as stated: _crawl_parallel called with an empty URL list returns    *)
(* counts {0,0} without calling crawler.start and without dispatching a    *)
(* fetch.                                                                  *)
(***************************************************************************)
C7_EmptyListNoAcquisition ==
    urls = <<>> =>
        /\ startCalls = 0
        /\ fetches = <<>>
        /\ success_count = 0
        /\ fail_count = 0

(***************************************************************************)
(* C7, amended: with an empty URL list no fetch is dispatched and both     *)
(* counts stay 0.  main does not call _crawl_parallel for an empty list,   *)
(* so a run of main never calls crawler.start; _crawl_parallel itself,     *)
(* called with an empty list, starts the crawler, logs the summary 0/0 and *)
(* closes the crawler.                                                     *)
(***************************************************************************)
C7_EmptyList ==
    urls = <<>> =>
        /\ fetches = <<>>
        /\ success_count = 0
        /\ fail_count = 0
        /\ caller = "main" => startCalls = 0 /\ closeCalls = 0 /\ pc \in {"main", "done"}
        /\ (caller = "direct" /\ pc = "done" /\ error = "none") =>
              startCalls = 1 /\ closeCalls = 1 /\ summary = <<0, 0>>

\* main has returned on an empty list
C7_Witness ==
    /\ urls = <<>>
    /\ caller = "main"
    /\ pc = "done"
    /\ startCalls = 0

(***************************************************************************)
(* C8, as stated: a persistence error is not fatal.  The outcome whose     *)
(* file could not be written stays counted in success_count, and the run   *)
(* ends with every URL dispatched, every outcome tallied and               *)
(* success_count + fail_count equal to the number of URLs.                 *)
(***************************************************************************)
C8_PersistNonFatal ==
    \A n \in DOMAIN events :
        events[n].type = "write_failed" =>
            /\ Tallied(events[n].pos, "success")
            /\ pc = "done" =>
                  /\ Len(fetches) = Len(urls)
                  /\ \A p \in Positions : Events("tally", p) # {}
                  /\ success_count + fail_count = Len(urls)

(***************************************************************************)
(* C9, as stated: when crawler.start raises, no fetch is dispatched, no    *)
(* counter is changed, and crawler.close is still called.                  *)
(***************************************************************************)
C9_StartFaultReleases ==
    error = "start" =>
        /\ fetches = <<>>
        /\ success_count = 0
        /\ fail_count = 0
        /\ closeCalls = 1

(***************************************************************************)
(* C10: evaluating an outcome issues a file write exactly when the outcome *)
(* is a successful CrawlResult whose selected content (html with           *)
(* --html-output, markdown without) is present and non-empty; the file     *)
(* written is the one named after the URL and holds that content.  A       *)
(* success without the selected content writes nothing, raises nothing and *)
(* is counted in success_count; a fault or an unsuccessful result writes   *)
(* nothing; and no other step touches the output directory.                *)
(***************************************************************************)
WriteEvents == SelectSeq(events, LAMBDA e : e.type \in {"write", "write_failed"})

C10_WriteIffSelected ==
    [][IF pc = "eval" /\ k < Len(results)
       THEN LET r == results[k + 1]
                pos == i + k + 1
                success == r.kind = "result" /\ r.success
                present == (html_output /\ r.html) \/ (~html_output /\ r.markdown)
                issued == /\ Len(WriteEvents') = Len(WriteEvents) + 1
                          /\ WriteEvents'[Len(WriteEvents')].pos = pos
                written == issued /\ WriteEvents'[Len(WriteEvents')].type = "write"
            IN  /\ issued <=> (success /\ present)
                /\ ~issued => WriteEvents' = WriteEvents
                /\ written =>
                      /\ OutputFile(urls[pos], html_output) \in DOMAIN files'
                      /\ files'[OutputFile(urls[pos], html_output)]
                            = <<IF html_output THEN "html" ELSE "markdown", pos>>
                /\ ~written => files' = files
                /\ (success /\ ~present) =>
                      /\ error' = "none"
                      /\ pc' = "eval"
                      /\ success_count' = success_count + 1
                      /\ fail_count' = fail_count
                /\ ~success => success_count' = success_count
       ELSE files' = files /\ WriteEvents' = WriteEvents]_vars

\* the loop has passed a success whose selected content was absent, without a
\* write, and a success whose content was written
C10_Witness ==
    /\ pc = "eval"
    /\ error = "none"
    /\ k = 2
    /\ results[1].success /\ ~Selected(results[1], html_output)
    /\ results[2].success /\ Selected(results[2], html_output)
    /\ Tallied(i + 1, "success")
    /\ Events("write", i + 1) = {}
    /\ Events("write", i + 2) # {}
    /\ DOMAIN files = {OutputFile(urls[i + 2], html_output)}

(***************************************************************************)
(* Vocabulary of the sitemap properties: what a document says, read entry  *)
(* by entry.                                                               *)
(***************************************************************************)
\* the non-empty loc texts, in document order
RECURSIVE NonEmptyTexts(_)
NonEmptyTexts(locs) ==
    IF locs = <<>> THEN <<>>
    ELSE (IF Head(locs).text = <<>> THEN <<>> ELSE <<Head(locs).text>>)
         \o NonEmptyTexts(Tail(locs))

\* the non-empty texts of the <url><loc> entries, in document order
RECURSIVE PageTexts(_)
PageTexts(locs) ==
    IF locs = <<>> THEN <<>>
    ELSE (IF Head(locs).text # <<>> /\ Head(locs).parent = "url"
          THEN <<Head(locs).text>> ELSE <<>>)
         \o PageTexts(Tail(locs))

\* an index holds only <sitemap><loc> entries, a plain sitemap only <url><loc>
WellFormed(doc) ==
    /\ doc.kind = "xml"
    /\ \A n \in DOMAIN doc.locs :
          doc.locs[n].text # <<>> =>
              doc.locs[n].parent = (IF doc.root = "sitemapindex" THEN "sitemap" ELSE "url")

\* _get_child_sitemaps has returned; response is the root document's
RootResolved == pc = "urls" /\ child = 0

(***************************************************************************)
(* C11: _get_child_sitemaps returns the child loc values of a sitemap      *)
(* index in document order (a loc without text is left out), the one       *)
(* element list [root URL] for a document that is not an index, and the    *)
(* empty list, with no exception propagated, on a transport error, a       *)
(* non-success status or malformed XML.                                    *)
(***************************************************************************)
C11_LeafSitemaps ==
    RootResolved =>
        /\ error = "none"
        /\ response.kind # "xml" => child_sitemaps = <<>>
        /\ (response.kind = "xml" /\ response.root # "sitemapindex") =>
              child_sitemaps = <<sitemap_url>>
        /\ (WellFormed(response) /\ response.root = "sitemapindex") =>
              child_sitemaps = NonEmptyTexts(response.locs)

\* an index with two children, returned in document order
C11_Witness ==
    /\ RootResolved
    /\ response.root = "sitemapindex"
    /\ WellFormed(response)
    /\ child_sitemaps = <<U2, U1>>

(***************************************************************************)
(* C12, as stated: _get_urls_to_crawl returns the texts of the <url><loc>  *)
(* entries of the document, in document order, without the empty ones; a   *)
(* loc that is not a page entry, such as the <sitemap><loc> entries of a   *)
(* child that is itself a sitemap index, is not returned as a page URL.    *)
(* Stated for the first child sitemap, whose result is the URL list so     *)
(* far.                                                                    *)
(***************************************************************************)
C12_PageEntriesOnly ==
    (pc = "urls" /\ child = 1 /\ WellFormed(response)) =>
        urls = PageTexts(response.locs)

(***************************************************************************)
(* C13: the URL list handed to _crawl_parallel is the concatenation, in    *)
(* sitemap order, of what _get_urls_to_crawl returns for each child        *)
(* sitemap.  The list starts empty; each child extends it by the loc texts *)
(* of its document, or by nothing when its fetch or parse fails, and       *)
(* leaves what was there; nothing is removed (duplicates stay); the next   *)
(* child is still processed after a failed one; and the list reaches line  *)
(* 182 only when every child has been processed, and is not changed after. *)
(***************************************************************************)
C13_Concatenation ==
    /\ [][pc = "sitemaps" => urls' = <<>> /\ child' = 0]_vars
    /\ [][(pc = "urls" /\ child' # child) =>
            /\ child' = child + 1
            /\ child_sitemaps' = child_sitemaps
            /\ error' = "none"
            /\ urls' = urls \o (IF response'.kind = "xml"
                                 THEN NonEmptyTexts(response'.locs) ELSE <<>>)]_vars
    /\ [][(pc # "sitemaps" /\ child' = child) => urls' = urls]_vars
    /\ [](pc \in {"main", "start", "done"} => child = Len(child_sitemaps))

\* two child sitemaps: the first gave the same URL twice, the second failed;
\* the list is handed over with both occurrences
C13_Witness ==
    /\ pc = "start"
    /\ Len(child_sitemaps) = 2
    /\ child = 2
    /\ response.kind = "transport_error"
    /\ urls = <<U1, U1>>

(***************************************************************************)
(* C14, as stated: the file name is the URL with a leading "https://"      *)
(* removed (only at the start of the URL), then every "/" and every "."    *)
(* replaced by "_", followed by ".md", or by ".html" with --html-output.   *)
(***************************************************************************)
StripLeadingScheme(url) ==
    IF url # <<>> /\ Head(url) = "https://" THEN Tail(url) ELSE url

StatedFileName(url, html) ==
    LET stripped == StripLeadingScheme(url)
    IN  [n \in 1..Len(stripped) + 1 |->
            IF n = Len(stripped) + 1 THEN (IF html THEN ".html" ELSE ".md")
            ELSE IF stripped[n] = "/" \/ stripped[n] = "." THEN "_"
            ELSE stripped[n]]

C14_FileName ==
    \A n \in DOMAIN events :
        events[n].type = "write" =>
            /\ events[n].what = StatedFileName(urls[events[n].pos], html_output)
            /\ DOMAIN files = {StatedFileName(urls[events[n].pos], html_output)}

(***************************************************************************)
(* C15: outcomes are tallied and persisted in the order of their URLs'     *)
(* places, whatever order the fetches completed in.  The n-th tally is     *)
(* that of position n; the events never go back to an earlier position; a  *)
(* write comes right after the tally of its own position, before the next  *)
(* outcome is looked at; an outcome, as soon as its fetch has resolved and *)
(* whichever fetches resolved before it, stands at the place of its URL,   *)
(* where the loop finds it; and a file is named after the URL at that      *)
(* place and holds the content fetched for it.                             *)
(***************************************************************************)
TallyEvents == SelectSeq(events, LAMBDA e : e.type = "tally")

C15_InUrlOrder ==
    /\ \A n \in DOMAIN TallyEvents : TallyEvents[n].pos = n
    /\ \A n \in DOMAIN events :
          /\ n > 1 => events[n - 1].pos <= events[n].pos
          /\ events[n].type \in {"write", "write_failed"} =>
                /\ n > 1
                /\ events[n - 1] = [type |-> "tally", pos |-> events[n].pos, what |-> "success"]
                /\ events[n].what = OutputFile(urls[events[n].pos], html_output)
          /\ events[n].type = "write" =>
                \E f \in DOMAIN files : files[f][2] >= events[n].pos
    /\ \A f \in DOMAIN files : f = OutputFile(urls[files[f][2]], html_output)
    /\ pc \in {"gather", "eval"} =>
          \A n \in DOMAIN results :
              /\ results[n].kind # "pending" => results[n].pos = i + n
              /\ results[n].kind = "result" => results[n].url = urls[i + n]
              /\ pc = "eval" => results[n].kind # "pending"

\* the two outcomes of a batch, tallied and written in URL order
C15_Witness ==
    /\ pc = "eval"
    /\ k = 2
    /\ Len(events) = 4
    /\ events[2].type = "write" /\ events[2].pos = 1
    /\ events[4].type = "write" /\ events[4].pos = 2
    /\ urls[1] # urls[2]

(***************************************************************************)
(* C16: the session_id handed to crawler.arun is unique across the whole   *)
(* run: no two arun calls, of one batch or of different batches, get the   *)
(* same one, also when the same URL stands at two positions.               *)
(***************************************************************************)
C16_SessionIdsUnique ==
    \A a, b \in DOMAIN fetches :
        fetches[a].session_id = fetches[b].session_id => a = b

\* the same URL fetched in two different batches
C16_Witness ==
    /\ Len(batches) >= 2
    /\ Len(fetches) = Len(urls)
    /\ \E a, b \in DOMAIN fetches :
          /\ a # b
          /\ BatchOf(a) # BatchOf(b)
          /\ fetches[a].url = fetches[b].url
          /\ fetches[a].session_id # fetches[b].session_id

(***************************************************************************)
(* C17: crawler.arun is called once per position of the URL list, with the *)
(* URL at that position: the n-th call is the one for position n, so no    *)
(* position is fetched twice (no retry after a failure or a fault), and in *)
(* a run that completes none is skipped, a URL standing at several         *)
(* positions being fetched once per occurrence.                            *)
(***************************************************************************)
C17_FetchedOncePerPosition ==
    /\ Len(fetches) <= Len(urls)
    /\ \A n \in DOMAIN fetches : fetches[n].url = urls[n]
    /\ Completed => Len(fetches) = Len(urls)

\* a completed run over a list with a repeated URL whose first occurrence
\* faulted and whose second failed
C17_Witness ==
    /\ Completed
    /\ Len(urls) = 3
    /\ urls[1] = urls[3]
    /\ Len(fetches) = 3
    /\ \E n \in DOMAIN events : events[n] = [type |-> "log", pos |-> 1, what |-> urls[1]]
    /\ Tallied(1, "fail")
    /\ Tallied(3, "fail")

(***************************************************************************)
(* C18: a result that came back with success false is handled like a fault *)
(* of arun: each of the two adds one to fail_count and is reported by a    *)
(* log call that names the URL.  Stated as: every tally of a failure comes *)
(* right after the log call for the URL at the same position.  The code    *)
(* logs in the isinstance(result, Exception) branch alone, so the formula  *)
(* is violated by a result with success false.                             *)
(***************************************************************************)
C18_FailuresHandledAlike ==
    \A n \in DOMAIN events :
        (events[n].type = "tally" /\ events[n].what = "fail") =>
            /\ n > 1
            /\ events[n - 1] = [type |-> "log", pos |-> events[n].pos,
                                what |-> urls[events[n].pos]]

(***************************************************************************)
(* C19: success_count and fail_count change only in the evaluation loop    *)
(* that runs after gather has returned: every step that changes a counter  *)
(* is a step of that loop, adds exactly 1 to exactly one of the two, and   *)
(* is taken in a state where no arun task is in flight; no step lowers a   *)
(* counter.                                                                *)
(***************************************************************************)
C19_CountersSerial ==
    [][ /\ success_count' >= success_count
        /\ fail_count' >= fail_count
        /\ (success_count' # success_count \/ fail_count' # fail_count) =>
              /\ pc = "eval"
              /\ InFlight = {}
              /\ \/ success_count' = success_count + 1 /\ fail_count' = fail_count
                 \/ fail_count' = fail_count + 1 /\ success_count' = success_count
              /\ Len(TallyEvents') = success_count' + fail_count' ]_vars

\* both counters raised by the evaluation of one batch
C19_Witness ==
    /\ InFlight = {}
    /\ success_count = 1
    /\ fail_count = 1
    /\ Len(batches) = 1
    /\ Tallied(1, "fail")
    /\ Tallied(2, "success")

(***************************************************************************)
(* The crawl under the conditions C20 names: open() and write() do not     *)
(* raise, and the event loop keeps running what can run, a dispatched arun *)
(* task among it, until nothing is left to run.                            *)
(***************************************************************************)
LiveNext == Next /\ error' # "persist"

LiveSpec == Init /\ [][LiveNext]_vars /\ WF_vars(LiveNext)

(***************************************************************************)
(* C20: when every dispatched arun task resolves and saving does not fail, *)
(* the run ends: it reaches its end, nothing happens after that, and every *)
(* run whose crawler started has by then dispatched every batch, tallied   *)
(* the outcome of every position, logged the summary and closed the        *)
(* crawler once.                                                           *)
(***************************************************************************)
C20_Terminates ==
    /\ <>(pc = "done")
    /\ [][pc # "done"]_vars
    /\ [](pc = "done" /\ startCalls = 1 /\ error # "start" =>
            /\ error = "none"
            /\ Flatten(batches) = urls
            /\ Len(fetches) = Len(urls)
            /\ \A p \in Positions : Events("tally", p) # {}
            /\ summary = <<success_count, fail_count>>
            /\ closeCalls = 1)

\* the end of a run of two batches whose outcomes were all tallied
C20_Witness ==
    /\ pc = "done"
    /\ closeCalls = 1
    /\ Len(urls) = 3
    /\ Len(batches) = 2
    /\ Len(TallyEvents) = 3
    /\ summary = <<2, 1>>
    /\ ~ENABLED Next

====
